---- MODULE Spec2Model ----
(***************************************************************************)
(* Model of the Empatica data-extraction application:                      *)
(*   src/extract_empatica_data/data_wrangling.py                           *)
(*       extract_start_tstamp, reading_avro_files,                         *)
(*       extract_signal_streamlit, serialize_data_dict                     *)
(*   src/streamlit_app.py   (the Streamlit script, one rerun per action)   *)
(*                                                                         *)
(* Representation of numbers.  A time in seconds (a Python float) is       *)
(* represented by the integer number of microseconds it denotes, so        *)
(* `x / 1e6` of a microsecond count x is represented by x itself and       *)
(* `k / f` seconds by (k * MicrosPerSecond) / f.  The sampling frequencies *)
(* of the model divide MicrosPerSecond, so every quotient is exact.  A     *)
(* value rounded to 3 decimals of a second is represented by its integer   *)
(* number of milliseconds.                                                 *)
(***************************************************************************)
EXTENDS Integers, Sequences, FiniteSets, TLC

VARIABLES
    \* ---- extract_signal_streamlit (data_wrangling.py:78-133)
    raw_datas,        \* argument: the list of records
    measure,          \* argument: the requested measure
    file_idx,         \* number of records the loop has visited
    fs_combine,       \* local list, line 95
    data_combine,     \* local list, line 96
    tstamp_combine,   \* local list, line 97
    msgs,             \* the st.error / st.info / st.success calls, in order
    pc,               \* "loop" | "done"
    data_dict,        \* the returned dict (NoDict before the return)
    \* ---- reading_avro_files (data_wrangling.py:39-74)
    uploaded_files,   \* argument: the uploaded files, in upload order
    sorted_files,     \* local list, line 60: upload positions in sorted order
    read_idx,         \* number of sorted files the loop has visited
    read_raw_datas,   \* local list raw_datas, line 63
    read_msgs,        \* the st.info / st.success / st.error calls, in order
    rpc,              \* "start" | "loop" | "done"
    \* ---- serialize_data_dict (data_wrangling.py:163-207)
    ser_data_dict,    \* argument data_dict
    ser_fmt,          \* argument fmt, a sequence of characters
    ser_base_name,    \* argument base_name
    ser_result,       \* the returned tuple or the exception raised
    spc,              \* "call" | "done"
    \* ---- streamlit_app.py: widget values, session state, last render
    uploaded,         \* st.file_uploader value: the current batch of files
    ui_measure,       \* st.selectbox value, line 48 (NoMeasure if none)
    fmt_label,        \* st.selectbox value, line 69
    session_state,    \* st.session_state, a dict
    download,         \* what the download button of the last run offers
    run_error,        \* the exception the last run ended with or showed
    last_extraction   \* history: the most recent extraction that returned

extract_vars == <<raw_datas, measure, file_idx, fs_combine, data_combine,
                  tstamp_combine, msgs, pc, data_dict>>

read_vars == <<uploaded_files, sorted_files, read_idx, read_raw_datas,
               read_msgs, rpc>>

ser_vars == <<ser_data_dict, ser_fmt, ser_base_name, ser_result, spc>>

app_vars == <<uploaded, ui_measure, fmt_label, session_state, download,
              run_error, last_extraction>>

vars == <<extract_vars, read_vars, ser_vars, app_vars>>

not_extract == <<read_vars, ser_vars, app_vars>>

not_read == <<extract_vars, ser_vars, app_vars>>

not_ser == <<extract_vars, read_vars, app_vars>>

not_app == <<extract_vars, read_vars, ser_vars>>

(***************************************************************************)
(* Bounds and program constants                                            *)
(***************************************************************************)
MaxRecords == 3

MaxFiles == 3

MaxLen == 2

MicrosPerSecond == 1000000

MarkerLen == 10

MillisPerSecond == 1000

Measures == {"eda", "temperature", "bvp"}

NoDict == [none |-> TRUE]

NoResult == [none |-> TRUE]

NoExtraction == [none |-> TRUE]

\* the selectbox of line 48 with nothing selected: Python's None
NoMeasure == "None"

EmptyDict == [k \in {} |-> 0]

(***************************************************************************)
(* Generic helpers                                                         *)
(***************************************************************************)
SeqsUpTo(S, n) == UNION {[1..k -> S] : k \in 0..n}

Last(s) == s[Len(s)]

\* Python true division where the quotient is exact (see the header).
Quot(a, b) == IF b > 0 THEN a \div b ELSE -(a \div (-b))

Abs(x) == IF x < 0 THEN -x ELSE x

(***************************************************************************)
(* Records as the container reader returns them: nested dicts.  A dict is  *)
(* a function from its keys; a missing key is a key outside its DOMAIN.    *)
(***************************************************************************)
Block(f, v, t) == [samplingFrequency |-> f, values |-> v, timestampStart |-> t]

AllMeasures(b) == [rawData |-> [m \in Measures |-> b]]

OnlyMeasure(m, b) == [rawData |-> (m :> b)]

WellFormedBlocks ==
    { Block(4, <<1, 2, 3, 4, 5>>, 0),
      Block(1, <<6>>, 10000000),
      Block(4, <<7, 8>>, 10500000),
      Block(4, <<9>>, 9800000),
      Block(4, <<>>, 11000000),
      Block(1, <<10>>, 10001500) }

NonPositiveFsBlocks ==
    { Block(f, v, 12000000) : f \in {0, -4}, v \in {<<>>, <<11>>, <<12, 13>>} }

IncompleteBlocks ==
    { [samplingFrequency |-> 4, timestampStart |-> 13000000],
      [samplingFrequency |-> 4, values |-> <<14, 15>>],
      [values |-> <<16>>, timestampStart |-> 13000000] }

RecordSet ==
    { AllMeasures(b) : b \in WellFormedBlocks \cup NonPositiveFsBlocks
                                              \cup IncompleteBlocks }
    \cup { OnlyMeasure("eda", Block(4, <<17, 18>>, 10500000)),
           [schemaVersion |-> 1] }

(***************************************************************************)
(* extract_signal_streamlit                                                *)
(***************************************************************************)
\* round(x, 3) of a float of seconds: nearest millisecond, ties to even.
round3(x) ==
    LET q == x \div MillisPerSecond
        r == x % MillisPerSecond
    IN  IF 2 * r < MillisPerSecond THEN q
        ELSE IF 2 * r > MillisPerSecond THEN q + 1
        ELSE IF q % 2 = 0 THEN q ELSE q + 1

tstamp_diff_reversed(meas_start_unix_s, last_tstamp) ==
    round3(last_tstamp - meas_start_unix_s)

\* line 112
tstamp_diff(meas_start_unix_s, last_tstamp) ==
    round3(meas_start_unix_s - last_tstamp)

linspace_no_endpoint(start, stop, num) ==
    IF num <= 0 THEN <<>>
    ELSE [i \in 1..num |-> start + (i - 1) * Quot(stop - start, num)]

\* np.linspace(start, stop, num=num, endpoint=True), lines 117-119:
\* step = (stop - start) / (num - 1); y[i] = start + i * step; y[-1] = stop.
linspace(start, stop, num) ==
    IF num <= 0 THEN <<>>
    ELSE IF num = 1 THEN <<start>>
    ELSE [i \in 1..num |->
            IF i = num THEN stop
            ELSE start + (i - 1) * Quot(stop - start, num - 1)]

st_error_one_based(m, idx, exc) ==
    [kind |-> "error", measure |-> m, file_idx |-> idx + 1, exc |-> exc]

\* line 123: the message names the measure, file_idx and the exception
st_error(m, idx, exc) ==
    [kind |-> "error", measure |-> m, file_idx |-> idx, exc |-> exc]

\* lines 113-115: the message names file_idx, file_idx+1 and the rounded gap
st_info_gap(idx, diff) ==
    [kind |-> "info", file_a |-> idx, file_b |-> idx + 1, tstamp_diff |-> diff]

\* line 125
st_success(m, n) == [kind |-> "success", measure |-> m, n_files |-> n]

\* raw_data['rawData'][measure] can be evaluated
HasMeasure(raw_data, m) ==
    /\ "rawData" \in DOMAIN raw_data
    /\ m \in DOMAIN raw_data.rawData

\* One iteration of the loop, lines 99-123.  st is the record of the three
\* lists and the message log; the result is st after the try/except.
ProcessRecord(st, raw_data, m, idx) ==
    LET Fail(s, exc) == [s EXCEPT !.msgs = Append(@, st_error(m, idx, exc))]
    IN
    IF ~HasMeasure(raw_data, m) THEN Fail(st, "KeyError")
    ELSE
    LET blk == raw_data.rawData[m] IN
    IF "samplingFrequency" \notin DOMAIN blk THEN Fail(st, "KeyError")
    ELSE
    LET meas_sampfreq == blk.samplingFrequency
        s1 == [st EXCEPT !.fs = Append(@, meas_sampfreq)]            \* 102
    IN
    IF "values" \notin DOMAIN blk THEN Fail(s1, "KeyError")          \* 104
    ELSE
    LET meas_data == blk.values
        s2 == [s1 EXCEPT !.samples = @ \o meas_data]                 \* 105
    IN
    IF "timestampStart" \notin DOMAIN blk THEN Fail(s2, "KeyError")  \* 107
    ELSE
    LET meas_start_unix_s == blk.timestampStart                      \* 108
    IN
    IF meas_sampfreq = 0 THEN Fail(s2, "ZeroDivisionError")          \* 109
    ELSE
    LET meas_end_unix_s ==
            meas_start_unix_s
            + Quot((Len(meas_data) - 1) * MicrosPerSecond, meas_sampfreq)
        s3 == IF st.tstamps # <<>>                                   \* 111
              THEN [s2 EXCEPT !.msgs = Append(@,
                       st_info_gap(idx,
                           tstamp_diff(meas_start_unix_s, Last(st.tstamps))))]
              ELSE s2
        meas_tstamps ==
            linspace(meas_start_unix_s, meas_end_unix_s, Len(meas_data))
    IN  [s3 EXCEPT !.tstamps = @ \o meas_tstamps]                    \* 120

(***************************************************************************)
(* File names are sequences of characters.                                 *)
(***************************************************************************)
Digits == {"0", "1", "2", "3", "4", "5", "6", "7", "8", "9"}

DigitValue ==
    "0" :> 0 @@ "1" :> 1 @@ "2" :> 2 @@ "3" :> 3 @@ "4" :> 4 @@
    "5" :> 5 @@ "6" :> 6 @@ "7" :> 7 @@ "8" :> 8 @@ "9" :> 9

AvroSuffix == <<".", "a", "v", "r", "o">>

\* str.endswith
endswith(s, suffix) ==
    /\ Len(s) >= Len(suffix)
    /\ SubSeq(s, Len(s) - Len(suffix) + 1, Len(s)) = suffix

\* int() of a run of decimal digits
RECURSIVE int(_)
int(ds) ==
    IF ds = <<>> THEN 0
    ELSE 10 * int(SubSeq(ds, 1, Len(ds) - 1)) + DigitValue[Last(ds)]

\* sort keys: an int, or float('inf')
IntKey(n) == [inf |-> FALSE, val |-> n]

InfKey == [inf |-> TRUE, val |-> 0]

\* Python's  a < b  on keys that are ints or float('inf')
KeyLess(a, b) ==
    IF a.inf THEN FALSE ELSE IF b.inf THEN TRUE ELSE a.val < b.val

\* positions where  (\d{10})(?=\.avro$)  matches: ten digits followed by
\* ".avro" and then the end of the string ($ also matches before a final "\n")
MarkerMatches(filename) ==
    { p \in 1..Len(filename) :
        /\ p + MarkerLen - 1 + Len(AvroSuffix) <= Len(filename)
        /\ \A i \in p..(p + MarkerLen - 1) : filename[i] \in Digits
        /\ SubSeq(filename, p + MarkerLen, p + MarkerLen - 1 + Len(AvroSuffix))
             = AvroSuffix
        /\ \/ p + MarkerLen - 1 + Len(AvroSuffix) = Len(filename)
           \/ /\ p + MarkerLen + Len(AvroSuffix) = Len(filename)
              /\ filename[Len(filename)] = "\n" }

Min(S) == CHOOSE x \in S : \A y \in S : x <= y

extract_start_tstamp_zero(filename) ==
    LET ms == MarkerMatches(filename)
    IN  IF ms # {}
        THEN IntKey(int(SubSeq(filename, Min(ms), Min(ms) + MarkerLen - 1)))
        ELSE IntKey(0)

\* lines 34-35
extract_start_tstamp(filename) ==
    LET ms == MarkerMatches(filename)
    IN  IF ms # {}
        THEN IntKey(int(SubSeq(filename, Min(ms), Min(ms) + MarkerLen - 1)))
        ELSE InfKey

(***************************************************************************)
(* Uploaded files: a name and what the container reader makes of the       *)
(* bytes (its records, or an exception).                                   *)
(***************************************************************************)
File(name, ok, records) == [name |-> name, readable |-> ok, records |-> records]

Name_a17  == <<"a", "_", "1", "7", "0", "0", "0", "0", "0", "0", "0", "0", ".", "a", "v", "r", "o">>
Name_b16  == <<"b", "_", "1", "6", "0", "0", "0", "0", "0", "0", "0", "0", ".", "a", "v", "r", "o">>
Name_c17  == <<"c", "_", "1", "7", "0", "0", "0", "0", "0", "0", "0", "0", ".", "a", "v", "r", "o">>
Name_x    == <<"x", ".", "a", "v", "r", "o">>
Name_y9   == <<"y", "_", "1", "6", "0", "0", "0", "0", "0", "0", "0", ".", "a", "v", "r", "o">>
Name_11   == <<"1", "1", "5", "0", "0", "0", "0", "0", "0", "0", "0", ".", "a", "v", "r", "o">>
Name_mid  == <<"1", "6", "0", "0", "0", "0", "0", "0", "0", "0", "_", "x", ".", "a", "v", "r", "o">>
Name_csv  == <<"z", "_", "1", "5", "0", "0", "0", "0", "0", "0", "0", "0", ".", "c", "s", "v">>

FileNames == {Name_a17, Name_b16, Name_c17, Name_x, Name_y9, Name_11,
              Name_mid, Name_csv}

RecA == AllMeasures(Block(4, <<1, 2, 3, 4, 5>>, 0))

RecB == AllMeasures(Block(1, <<6>>, 10000000))

RecEdaOnly == OnlyMeasure("eda", Block(4, <<17, 18>>, 10500000))

FileSet ==
    { File(n, TRUE, <<RecA>>) : n \in FileNames }
    \cup { File(Name_b16, FALSE, <<>>), File(Name_x, TRUE, <<RecB, RecEdaOnly>>) }

(***************************************************************************)
(* reading_avro_files                                                      *)
(***************************************************************************)
\* sorted(xs, key=...): stable, ascending; x goes before the first element
\* whose key is greater than its own.  key is the function item -> key.
RECURSIVE InsertByKey(_, _, _)
InsertByKey(s, x, key) ==
    IF s = <<>> THEN <<x>>
    ELSE IF KeyLess(key[x], key[s[1]]) THEN <<x>> \o s
    ELSE <<s[1]>> \o InsertByKey(Tail(s), x, key)

RECURSIVE sorted(_, _)
sorted(xs, key) ==
    IF xs = <<>> THEN <<>>
    ELSE InsertByKey(sorted(SubSeq(xs, 1, Len(xs) - 1), key), Last(xs), key)

\* line 56: the upload positions of the files whose name ends with ".avro"
avro_files(files) ==
    SelectSeq([i \in 1..Len(files) |-> i],
              LAMBDA i : endswith(files[i].name, AvroSuffix))

\* line 60
sort_files(files) ==
    sorted(avro_files(files),
           [i \in 1..Len(files) |-> extract_start_tstamp(files[i].name)])

\* lines 66-72, one file: rd is the record of raw_datas and the message log
ReadOne(rd, f) ==
    IF f.readable
    THEN [datas |-> rd.datas \o f.records,
          msgs |-> Append(rd.msgs, [kind |-> "success", name |-> f.name])]
    ELSE [datas |-> rd.datas,
          msgs |-> Append(rd.msgs, [kind |-> "error", name |-> f.name])]

(***************************************************************************)
(* serialize_data_dict                                                     *)
(***************************************************************************)
\* Non-finite floats and JSON null, as reserved numbers no sample or
\* timestamp of the model takes.
NaN == -2000000001

None == -2000000002

\* lines 136-146, on the dict of lists
nan_to_none(x) ==
    [k \in DOMAIN x |-> [i \in DOMAIN x[k] |-> IF x[k][i] = NaN THEN None ELSE x[k][i]]]

LowerCase ==
    "C" :> "c" @@ "S" :> "s" @@ "V" :> "v" @@ "J" :> "j" @@ "O" :> "o" @@
    "N" :> "n" @@ "P" :> "p" @@ "I" :> "i" @@ "K" :> "k" @@ "L" :> "l" @@
    "E" :> "e" @@ "X" :> "x" @@ "M" :> "m"

Whitespace == {" ", "\t", "\n"}

\* str.lower
lower(s) == [i \in DOMAIN s |-> IF s[i] \in DOMAIN LowerCase THEN LowerCase[s[i]] ELSE s[i]]

\* str.strip
strip(s) ==
    LET keep == {i \in DOMAIN s : s[i] \notin Whitespace}
    IN  IF keep = {} THEN <<>>
        ELSE SubSeq(s, Min(keep), CHOOSE i \in keep : \A j \in keep : j <= i)

FmtPickle == <<"p", "i", "c", "k", "l", "e">>

FmtJson == <<"j", "s", "o", "n">>

FmtCsv == <<"c", "s", "v">>

\* line 207
UnsupportedFormatMessage ==
    <<"U", "n", "s", "u", "p", "p", "o", "r", "t", "e", "d", " ", "f",
      "o", "r", "m", "a", "t", ".", " ", "U", "s", "e", " ", "'",
      "p", "i", "c", "k", "l", "e", "'", ",", " ", "'", "j", "s",
      "o", "n", "'", ",", " ", "o", "r", " ", "'", "c", "s", "v",
      "'", ".">>

\* pandas: "All arrays must be of the same length"
SameLengthMessage ==
    <<"A", "l", "l", " ", "a", "r", "r", "a", "y", "s", " ", "m", "u",
      "s", "t", " ", "b", "e", " ", "o", "f", " ", "t", "h", "e",
      " ", "s", "a", "m", "e", " ", "l", "e", "n", "g", "t", "h">>

Raise(exc, message) == [raised |-> TRUE, exc |-> exc, message |-> message]

Returned(blob, base_name, ext, mime) ==
    [raised |-> FALSE, blob |-> blob, filename |-> <<base_name, ext>>, mime |-> mime]

DataFrame_truncating(tstamps, samples) ==
    LET n == IF Len(tstamps) < Len(samples) THEN Len(tstamps) ELSE Len(samples)
    IN  [raised |-> FALSE,
         columns |-> <<"tstamps", "samples">>,
         rows |-> [i \in 1..n |-> <<tstamps[i], samples[i]>>]]

\* lines 200-203: pd.DataFrame({"tstamps": ..., "samples": ...}) of two
\* lists: a frame of len rows, or ValueError when the lengths differ
DataFrame(tstamps, samples) ==
    IF Len(tstamps) # Len(samples)
    THEN Raise("ValueError", SameLengthMessage)
    ELSE [raised |-> FALSE,
          columns |-> <<"tstamps", "samples">>,
          rows |-> [i \in 1..Len(samples) |-> <<tstamps[i], samples[i]>>]]

\* line 204: df.to_csv(index=False): the header row, then one row per index
to_csv(df) == [format |-> "csv", header |-> df.columns, rows |-> df.rows]

serialize_data_dict_default_pickle(d, fmt0, base_name) ==
    LET fmt == strip(lower(fmt0))
    IN  IF fmt = FmtJson
        THEN Returned([format |-> "json", obj |-> nan_to_none(d)],
                      base_name, ".json", "application/json")
        ELSE IF fmt = FmtCsv
        THEN LET df == DataFrame(d.tstamps, d.samples)
             IN  IF df.raised THEN df
                 ELSE Returned(to_csv(df), base_name, ".csv", "text/csv")
        ELSE Returned([format |-> "pickle", obj |-> d],
                      base_name, ".pkl", "application/octet-stream")

\* lines 183-207
serialize_data_dict(d, fmt0, base_name) ==
    LET fmt == strip(lower(fmt0))
    IN  IF fmt = FmtPickle
        THEN Returned([format |-> "pickle", obj |-> d],
                      base_name, ".pkl", "application/octet-stream")
        ELSE IF fmt = FmtJson
        THEN Returned([format |-> "json", obj |-> nan_to_none(d)],
                      base_name, ".json", "application/json")
        ELSE IF fmt = FmtCsv
        THEN LET df == DataFrame(d.tstamps, d.samples)
             IN  IF df.raised THEN df
                 ELSE Returned(to_csv(df), base_name, ".csv", "text/csv")
        ELSE Raise("ValueError", UnsupportedFormatMessage)

SerIdle ==
    /\ ser_data_dict = NoDict
    /\ ser_fmt = <<>>
    /\ ser_base_name = ""
    /\ ser_result = NoResult
    /\ spc = "idle"

AppIdle ==
    /\ uploaded = <<>>
    /\ ui_measure = NoMeasure
    /\ fmt_label = "Pickle (.pkl)"
    /\ session_state = EmptyDict
    /\ download = NoResult
    /\ run_error = "none"
    /\ last_extraction = NoExtraction

ReadIdle ==
    /\ uploaded_files = <<>>
    /\ sorted_files = <<>>
    /\ read_idx = 0
    /\ read_raw_datas = <<>>
    /\ read_msgs = <<>>
    /\ rpc = "idle"

ExtractIdle ==
    /\ raw_datas = <<>>
    /\ measure = "eda"
    /\ file_idx = 0
    /\ fs_combine = <<>>
    /\ data_combine = <<>>
    /\ tstamp_combine = <<>>
    /\ msgs = <<>>
    /\ pc = "idle"
    /\ data_dict = NoDict


Locals == [fs |-> fs_combine, samples |-> data_combine,
           tstamps |-> tstamp_combine, msgs |-> msgs]

\* lines 95-97
Init ==
    /\ raw_datas \in SeqsUpTo(RecordSet, MaxRecords)
    /\ measure \in Measures
    /\ file_idx = 0
    /\ fs_combine = <<>>
    /\ data_combine = <<>>
    /\ tstamp_combine = <<>>
    /\ msgs = <<>>
    /\ pc = "loop"
    /\ data_dict = NoDict
    /\ ReadIdle
    /\ SerIdle
    /\ AppIdle

\* lines 99-123, one record
VisitRecord ==
    /\ pc = "loop"
    /\ file_idx < Len(raw_datas)
    /\ LET s == ProcessRecord(Locals, raw_datas[file_idx + 1], measure, file_idx)
       IN  /\ fs_combine' = s.fs
           /\ data_combine' = s.samples
           /\ tstamp_combine' = s.tstamps
           /\ msgs' = s.msgs
    /\ file_idx' = file_idx + 1
    /\ UNCHANGED <<raw_datas, measure, pc, data_dict>>
    /\ UNCHANGED not_extract

\* lines 125-133 (measure is a str here, so measure.upper() returns)
Return ==
    /\ pc = "loop"
    /\ file_idx = Len(raw_datas)
    /\ msgs' = Append(msgs, st_success(measure, Len(raw_datas)))
    /\ data_dict' = [fs |-> fs_combine, samples |-> data_combine,
                     tstamps |-> tstamp_combine]
    /\ pc' = "done"
    /\ UNCHANGED <<raw_datas, measure, file_idx, fs_combine, data_combine,
                   tstamp_combine>>
    /\ UNCHANGED not_extract

Next == VisitRecord \/ Return

Spec == Init /\ [][Next]_vars

(***************************************************************************)
(* The whole loop as a fold, for callers of the function                   *)
(***************************************************************************)
RECURSIVE RunLoop(_, _, _, _)
RunLoop(st, recs, m, idx) ==
    IF idx >= Len(recs) THEN st
    ELSE RunLoop(ProcessRecord(st, recs[idx + 1], m, idx), recs, m, idx + 1)

EmptyLocals == [fs |-> <<>>, samples |-> <<>>, tstamps |-> <<>>, msgs |-> <<>>]

Series(st) == [fs |-> st.fs, samples |-> st.samples, tstamps |-> st.tstamps]

(***************************************************************************)
(* Claims about extract_signal_streamlit                                   *)
(***************************************************************************)
ErrorIdxs == {k \in DOMAIN msgs : msgs[k].kind = "error"}

\* the step just taken logged an st.error as its last message
StepFailed == /\ Len(msgs') > Len(msgs)
              /\ msgs'[Len(msgs')].kind = "error"

VisitStep == pc = "loop" /\ file_idx < Len(raw_datas) /\ file_idx' = file_idx + 1

Visited == raw_datas[file_idx + 1]

ListsUnchanged == /\ fs_combine' = fs_combine
                  /\ data_combine' = data_combine
                  /\ tstamp_combine' = tstamp_combine

\* C1: at the return, len(samples) = len(tstamps) and len(fs) is the number
\* of records that were not skipped as failed.
C1_LengthInvariant ==
    pc = "done" =>
        /\ Len(data_dict.samples) = Len(data_dict.tstamps)
        /\ Len(data_dict.fs) = Len(raw_datas) - Cardinality(ErrorIdxs)

\* C2: a record whose processing raises leaves fs, samples and tstamps
\* exactly as they were before the record was visited.
C2_FailedRecordIsAtomic ==
    [][(VisitStep /\ StepFailed) => ListsUnchanged]_vars

NonPositiveFs(r, m) ==
    /\ HasMeasure(r, m)
    /\ "samplingFrequency" \in DOMAIN r.rawData[m]
    /\ r.rawData[m].samplingFrequency <= 0

\* C4: a record whose sampling frequency is zero or negative is skipped
\* with an error and contributes nothing to fs, samples or tstamps.
C4_NonPositiveFsSkipped ==
    [][(VisitStep /\ NonPositiveFs(Visited, measure))
          => (StepFailed /\ ListsUnchanged)]_vars

\* C5: a successfully processed segment with n values, start start_s and
\* frequency f > 0 appends f to fs, its n values to samples and exactly the
\* n timestamps start_s + i/f (i = 0..n-1), which are non-decreasing.
C5_TimestampsOfSegment ==
    [][(VisitStep /\ ~StepFailed /\ Visited.rawData[measure].samplingFrequency > 0)
          => LET blk == Visited.rawData[measure]
                 f == blk.samplingFrequency
                 n == Len(blk.values)
                 start_s == blk.timestampStart
                 new == SubSeq(tstamp_combine', Len(tstamp_combine) + 1,
                               Len(tstamp_combine'))
             IN  /\ fs_combine' = Append(fs_combine, f)
                 /\ data_combine' = data_combine \o blk.values
                 /\ SubSeq(tstamp_combine', 1, Len(tstamp_combine)) = tstamp_combine
                 /\ Len(new) = n
                 /\ \A i \in 1..n :
                      f * (new[i] - start_s) = (i - 1) * MicrosPerSecond
                 /\ n >= 1 => new[1] = start_s
                 /\ \A i \in 1..(n - 1) : new[i] <= new[i + 1]]_vars

C5_Witness ==
    /\ pc = "done"
    /\ Len(raw_datas) = 3
    /\ ErrorIdxs = {}
    /\ data_dict.fs = <<4, 4, 1>>
    /\ data_dict.samples = <<1, 2, 3, 4, 5, 6>>
    /\ data_dict.tstamps = <<0, 250000, 500000, 750000, 1000000, 10000000>>

\* C6: a reported gap is the new segment's start minus the last timestamp
\* already in the merged series, to the nearest millisecond: +0.5 s for a
\* start 0.5 s after it, -0.2 s for a start 0.2 s before it.
C6_GapIsStartMinusPreviousLast ==
    [][(VisitStep /\ \E k \in (Len(msgs) + 1)..Len(msgs') : msgs'[k].kind = "info")
          => LET k == CHOOSE j \in (Len(msgs) + 1)..Len(msgs') : msgs'[j].kind = "info"
                 g == msgs'[k].tstamp_diff
                 d == Visited.rawData[measure].timestampStart - Last(tstamp_combine)
             IN  /\ tstamp_combine # <<>>
                 /\ 2 * Abs(MillisPerSecond * g - d) <= MillisPerSecond
                 /\ d = 500000 => g = 500
                 /\ d = -200000 => g = -200]_vars

C6_Witness ==
    /\ pc = "done"
    /\ data_dict.tstamps = <<10000000, 9800000>>
    /\ \E k \in DOMAIN msgs : msgs[k].kind = "info" /\ msgs[k].tstamp_diff = -200

InitRead ==
    /\ uploaded_files \in SeqsUpTo(FileSet, MaxFiles)
    /\ sorted_files = <<>>
    /\ read_idx = 0
    /\ read_raw_datas = <<>>
    /\ read_msgs = <<>>
    /\ rpc = "start"
    /\ ExtractIdle
    /\ SerIdle
    /\ AppIdle

\* lines 55-63
ReadStart ==
    /\ rpc = "start"
    /\ read_msgs' = <<[kind |-> "info", n_avro |-> Len(avro_files(uploaded_files))]>>
    /\ sorted_files' = sort_files(uploaded_files)
    /\ read_raw_datas' = <<>>
    /\ rpc' = "loop"
    /\ UNCHANGED <<uploaded_files, read_idx>>
    /\ UNCHANGED not_read

\* lines 65-72, one file
ReadFile ==
    /\ rpc = "loop"
    /\ read_idx < Len(sorted_files)
    /\ LET rd == ReadOne([datas |-> read_raw_datas, msgs |-> read_msgs],
                         uploaded_files[sorted_files[read_idx + 1]])
       IN  /\ read_raw_datas' = rd.datas
           /\ read_msgs' = rd.msgs
    /\ read_idx' = read_idx + 1
    /\ UNCHANGED <<uploaded_files, sorted_files, rpc>>
    /\ UNCHANGED not_read

\* line 74
ReadReturn ==
    /\ rpc = "loop"
    /\ read_idx = Len(sorted_files)
    /\ rpc' = "done"
    /\ UNCHANGED <<uploaded_files, sorted_files, read_idx, read_raw_datas, read_msgs>>
    /\ UNCHANGED not_read

NextRead == ReadStart \/ ReadFile \/ ReadReturn

SpecRead == InitRead /\ [][NextRead]_vars

\* the whole function, for callers
RECURSIVE ReadLoop(_, _, _, _)
ReadLoop(rd, files, order, i) ==
    IF i >= Len(order) THEN rd
    ELSE ReadLoop(ReadOne(rd, files[order[i + 1]]), files, order, i + 1)

reading_avro_files(files) ==
    ReadLoop([datas |-> <<>>, msgs |-> <<>>], files, sort_files(files), 0).datas

(***************************************************************************)
(* Claims about reading_avro_files                                         *)
(***************************************************************************)
HasMarker(name) ==
    /\ Len(name) >= MarkerLen + Len(AvroSuffix)
    /\ endswith(name, AvroSuffix)
    /\ \A i \in (Len(name) - Len(AvroSuffix) - MarkerLen + 1)
                ..(Len(name) - Len(AvroSuffix)) : name[i] \in Digits

Marker(name) == int(SubSeq(name, Len(name) - Len(AvroSuffix) - MarkerLen + 1,
                           Len(name) - Len(AvroSuffix)))

\* C7: the files are processed in stable ascending order of the key: the
\* eligible files with a 10-digit marker before ".avro" in ascending marker
\* order, equal markers in upload order, and the eligible files without a
\* marker after all of them, in upload order.
C7_ProcessingOrder ==
    rpc \in {"loop", "done"} =>
      LET eligible == {i \in 1..Len(uploaded_files) :
                          endswith(uploaded_files[i].name, AvroSuffix)}
          n == Len(sorted_files)
          nm(k) == uploaded_files[sorted_files[k]].name
      IN  /\ {sorted_files[k] : k \in 1..n} = eligible
          /\ n = Cardinality(eligible)
          /\ \A j, k \in 1..n : j < k =>
               \/ /\ HasMarker(nm(j)) /\ HasMarker(nm(k))
                  /\ \/ Marker(nm(j)) < Marker(nm(k))
                     \/ /\ Marker(nm(j)) = Marker(nm(k))
                        /\ sorted_files[j] < sorted_files[k]
               \/ HasMarker(nm(j)) /\ ~HasMarker(nm(k))
               \/ /\ ~HasMarker(nm(j)) /\ ~HasMarker(nm(k))
                  /\ sorted_files[j] < sorted_files[k]
          /\ Len(read_msgs) = read_idx + 1
          /\ \A k \in 1..read_idx : read_msgs[k + 1].name = nm(k)

C7_Witness ==
    /\ rpc = "done"
    /\ Len(uploaded_files) = 3
    /\ uploaded_files[1].name = Name_x
    /\ uploaded_files[2].name = Name_c17
    /\ uploaded_files[3].name = Name_a17
    /\ sorted_files = <<2, 3, 1>>


(***************************************************************************)
(* serialize_data_dict as a state machine: one call                        *)
(***************************************************************************)
FormatInputs ==
    { FmtPickle, FmtJson, FmtCsv, <<"C", "S", "V">>, <<" ", "c", "s", "v", " ">>, <<"J", "s", "o", "n">>, <<"x", "m", "l">>, <<>>,
      <<"c", " ", "s", "v">>, <<"p", "k", "l">> }

SeriesInputs ==
    [fs : SeqsUpTo({4}, 1),
     samples : SeqsUpTo({5, NaN}, MaxLen),
     tstamps : SeqsUpTo({0, 250000}, MaxLen)]

InitSerialize ==
    /\ ser_data_dict \in SeriesInputs
    /\ ser_fmt \in FormatInputs
    /\ ser_base_name = "data"
    /\ ser_result = NoResult
    /\ spc = "call"
    /\ ExtractIdle
    /\ ReadIdle
    /\ AppIdle

Serialize ==
    /\ spc = "call"
    /\ ser_result' = serialize_data_dict(ser_data_dict, ser_fmt, ser_base_name)
    /\ spc' = "done"
    /\ UNCHANGED <<ser_data_dict, ser_fmt, ser_base_name>>
    /\ UNCHANGED not_ser

NextSerialize == Serialize

SpecSerialize == InitSerialize /\ [][NextSerialize]_vars

(***************************************************************************)
(* Claims about serialize_data_dict                                        *)
(***************************************************************************)
\* sub occurs in s as a contiguous run of characters
Contains(s, sub) ==
    \E p \in 1..(Len(s) + 1) :
        /\ p + Len(sub) - 1 <= Len(s)
        /\ SubSeq(s, p, p + Len(sub) - 1) = sub

SerializeStep == spc = "call" /\ spc' = "done"

FailedWithoutOutput ==
    /\ ser_result'.raised
    /\ ser_result'.exc = "ValueError"
    /\ "blob" \notin DOMAIN ser_result'
    /\ "filename" \notin DOMAIN ser_result'
    /\ "mime" \notin DOMAIN ser_result'
    /\ ser_data_dict' = ser_data_dict

C9_CsvShape ==
    (spc = "done" /\ strip(lower(ser_fmt)) = FmtCsv) =>
        IF Len(ser_data_dict.samples) = Len(ser_data_dict.tstamps)
        THEN /\ ~ser_result.raised
             /\ ser_result.blob.header = <<"tstamps", "samples">>
             /\ Len(ser_result.blob.rows) = Len(ser_data_dict.samples)
             /\ \A i \in 1..Len(ser_data_dict.samples) :
                  ser_result.blob.rows[i]
                    = <<ser_data_dict.tstamps[i], ser_data_dict.samples[i]>>
        ELSE /\ ser_result.raised
             /\ ser_result.exc = "ValueError"
             /\ ser_result.message = SameLengthMessage
             /\ "blob" \notin DOMAIN ser_result

C9_Witness ==
    /\ spc = "done"
    /\ ser_fmt = FmtCsv
    /\ Len(ser_data_dict.samples) = 2
    /\ Len(ser_data_dict.tstamps) = 1
    /\ ser_result.raised
    /\ ser_result.message = SameLengthMessage


(***************************************************************************)
(* streamlit_app.py.  Streamlit runs the whole script again after every    *)
(* widget interaction; a button is True only in the run its click started. *)
(* Each action is one interaction followed by that run.                    *)
(***************************************************************************)
\* the whole of extract_signal_streamlit, lines 95-133; measure.upper() of
\* line 125 raises AttributeError when measure is None
extract_signal_streamlit(recs, m) ==
    IF m = NoMeasure
    THEN [raised |-> TRUE, exc |-> "AttributeError"]
    ELSE [raised |-> FALSE, data_dict |-> Series(RunLoop(EmptyLocals, recs, m, 0))]

\* lines 76-80
FMT_KEY ==
    "Pickle (.pkl)" :> FmtPickle @@ "JSON (.json)" :> FmtJson @@ "CSV (.csv)" :> FmtCsv

RecNoStart == AllMeasures([samplingFrequency |-> 4, values |-> <<14, 15>>])

BatchOne == <<File(Name_a17, TRUE, <<RecB>>), File(Name_b16, TRUE, <<RecA>>)>>

BatchTwo == <<File(Name_x, TRUE, <<RecEdaOnly>>)>>

BatchThree == <<File(Name_c17, TRUE, <<RecNoStart>>)>>

UploadBatches == {<<>>, BatchOne, BatchTwo, BatchThree}

\* lines 99-104
has_data(ss) ==
    /\ "data_dict" \in DOMAIN ss
    /\ \/ Len(ss["data_dict"].samples) > 0
       \/ Len(ss["data_dict"].tstamps) > 0

InitApp ==
    /\ AppIdle
    /\ ExtractIdle
    /\ ReadIdle
    /\ SerIdle

\* the uploader's value changes; the run reads the files (lines 40-42)
Upload ==
    /\ \E b \in UploadBatches : b # uploaded /\ uploaded' = b
    /\ download' = NoResult
    /\ run_error' = "none"
    /\ UNCHANGED <<ui_measure, fmt_label, session_state, last_extraction>>
    /\ UNCHANGED not_app

\* line 48
SelectMeasure ==
    /\ \E m \in Measures \cup {NoMeasure} : m # ui_measure /\ ui_measure' = m
    /\ download' = NoResult
    /\ run_error' = "none"
    /\ UNCHANGED <<uploaded, fmt_label, session_state, last_extraction>>
    /\ UNCHANGED not_app

\* line 69
SelectFormat ==
    /\ \E l \in DOMAIN FMT_KEY : l # fmt_label /\ fmt_label' = l
    /\ download' = NoResult
    /\ run_error' = "none"
    /\ UNCHANGED <<uploaded, ui_measure, session_state, last_extraction>>
    /\ UNCHANGED not_app

\* lines 55-59: the "Data Extraction" button, enabled when files are uploaded
ClickExtract ==
    /\ uploaded # <<>>
    /\ LET r == extract_signal_streamlit(reading_avro_files(uploaded), ui_measure)
       IN  IF r.raised
           THEN /\ run_error' = r.exc
                /\ UNCHANGED <<session_state, last_extraction>>
           ELSE /\ run_error' = "none"
                /\ session_state' =
                     IF r.data_dict.samples # <<>> \/ r.data_dict.tstamps # <<>>
                     THEN ("data_dict" :> r.data_dict)
                          @@ ("extracted_measure" :> ui_measure)
                     ELSE session_state
                /\ last_extraction' = [batch |-> uploaded, measure |-> ui_measure,
                                       data_dict |-> r.data_dict]
    /\ download' = NoResult
    /\ UNCHANGED <<uploaded, ui_measure, fmt_label>>
    /\ UNCHANGED not_app

\* lines 66, 98-113: the "Prepare file" button, enabled when has_data
ClickPrepare ==
    /\ has_data(session_state)
    /\ LET r == serialize_data_dict(session_state["data_dict"],
                                    FMT_KEY[fmt_label], ui_measure)
       IN  IF r.raised
           THEN /\ run_error' = r.exc
                /\ download' = NoResult
           ELSE /\ run_error' = "none"
                /\ download' = r
    /\ UNCHANGED <<uploaded, ui_measure, fmt_label, session_state, last_extraction>>
    /\ UNCHANGED not_app

\* line 111: clicking the download button hands over the blob and starts a
\* run in which "Prepare file" is False, so the button is not rendered again
ClickDownload ==
    /\ download # NoResult
    /\ download' = NoResult
    /\ run_error' = "none"
    /\ UNCHANGED <<uploaded, ui_measure, fmt_label, session_state, last_extraction>>
    /\ UNCHANGED not_app

NextApp ==
    \/ Upload
    \/ SelectMeasure
    \/ SelectFormat
    \/ ClickExtract
    \/ ClickPrepare
    \/ ClickDownload

SpecApp == InitApp /\ [][NextApp]_vars

(***************************************************************************)
(* Claim about the application                                             *)
(***************************************************************************)
\* C10: the series held in session state, and the series a prepared download
\* serializes, is the result of the most recent extraction, and that
\* extraction ran on the batch now uploaded.
C10_SeriesIsLatestExtraction ==
    /\ "data_dict" \in DOMAIN session_state =>
         /\ last_extraction # NoExtraction
         /\ last_extraction.batch = uploaded
         /\ last_extraction.data_dict = session_state["data_dict"]
    /\ download # NoResult =>
         /\ last_extraction # NoExtraction
         /\ last_extraction.batch = uploaded
         /\ download = serialize_data_dict(last_extraction.data_dict,
                                           FMT_KEY[fmt_label], ui_measure)

====
